---- MODULE Spec2Model ----
(***************************************************************************)
(* Task API of prepstech-task-manager: the Express task routes, the Joi    *)
(* request schemas and the MongoDBService task operations.  The repository *)
(* carries two generations of this code: the flat-field generation         *)
(* (priority/dueDate/tags are document fields) and the extras generation   *)
(* (they live inside the extras object).  The document store outlives a    *)
(* deployment, so records written by the flat generation are later read by *)
(* the extras generation ("old format" in mapTaskDocToType).               *)
(***************************************************************************)
EXTENDS Integers, Sequences, FiniteSets, TLC

\* ---------------------------------------------------------------- bounds
MaxTasks == 2
MaxClock == 3
MaxInflight == 1

\* ---------------------------------------------------------------- values
Undef == "undefined"
Null == "null"
EmptyStr == ""

Users == {"u1", "u2"}

StatusValues == {"pending", "in-progress", "done"}
PriorityValues == {"low", "medium", "high"}

TaskStatusPending == "pending"
TaskPriorityMedium == "medium"

EmptyTags == "[]"
TagsWork == "[work]"
TagsHome == "[home]"

DateStr1 == "2025-01-01"
DateStr2 == "2025-02-02"
Iso1 == "2025-01-01T00:00:00.000Z"
Iso2 == "2025-02-02T00:00:00.000Z"

ReservedKeys == {"priority", "dueDate", "tags"}
CustomKeys == {"category", "assignee"}
ExtraKeys == ReservedKeys \cup {"due_date"} \cup CustomKeys

\* JavaScript truthiness of the values used here; an array is always truthy
Falsy(v) == v \in {Undef, Null, EmptyStr}

\* a || b
Or(a, b) == IF Falsy(a) THEN b ELSE a

\* {} : an object with no own keys
EmptyObject == [k \in ExtraKeys |-> Undef]

\* { ...a, ...b }
Spread(a, b) == [k \in ExtraKeys |-> IF b[k] # Undef THEN b[k] ELSE a[k]]

Keys(o) == {k \in ExtraKeys : o[k] # Undef}

\* new Date(s) for the date strings in use, held as the instant's ISO form
NewDate(s) ==
  CASE s = DateStr1 -> Iso1
    [] s = DateStr2 -> Iso2
    [] OTHER -> s

\* Date.prototype.toISOString
ToISOString(d) == d

\* String.prototype.trim, applied by the schema's `trim: true` when a
\* document is built and when an update is cast
Trim(s) ==
  CASE s = " " -> EmptyStr
    [] s = " t1 " -> "t1"
    [] OTHER -> s

\* ---------------------------------------------------------------- tokens
\* the bearer tokens a request may carry: none (undefined), one whose
\* signature does not verify, one that has expired, and the unexpired tokens
\* issued to u1 and u2
Tokens == {Undef, "forged", "expired", "token-u1", "token-u2"}

\* the user a token names in its payload; the forged and the expired token
\* name a third user
TokenUser(t) ==
  CASE t = "token-u1" -> "u1"
    [] t = "token-u2" -> "u2"
    [] OTHER -> "u3"

\* jwt.verify(token, secret) calls back without an error
JwtVerifies(t) == t \in {"token-u1", "token-u2"}

\* authenticateToken with every token that carries a payload let through
AuthStatusDecodeOnly(t) == IF Falsy(t) THEN 401 ELSE 0

\* authenticateToken: the status it answers, 0 when it calls next()
AuthStatus(t) ==
  IF Falsy(t) THEN 401
  ELSE IF ~JwtVerifies(t) THEN 403
  ELSE 0

AuthMessage(t) ==
  IF Falsy(t) THEN "Access token required" ELSE "Invalid or expired token"

\* req.user of the requests that authenticateToken lets through
Callers == {TokenUser(t) : t \in {x \in Tokens : AuthStatus(x) = 0}}

\* the routes behind authenticateToken
TaskOps == {"listTasks", "createTask", "updateTask", "deleteTask", "insights"}

\* ---------------------------------------------------------------- requests
NoPayload ==
  [title |-> Undef, description |-> Undef, status |-> Undef,
   priority |-> Undef, dueDate |-> Undef, tags |-> Undef,
   hasExtras |-> FALSE, extras |-> EmptyObject]

NoBody ==
  [shape |-> "none", id |-> 0, title |-> Undef, description |-> Undef,
   status |-> Undef, priority |-> Undef, due_date |-> Undef, tags |-> Undef,
   hasExtras |-> FALSE, extras |-> EmptyObject, user_id |-> Undef,
   created_at |-> 0, updated_at |-> 0]

VARIABLES
  variant,    \* which generation of the server code is deployed
  tasks,      \* the tasks collection: _id -> document
  nextId,     \* next _id the store assigns
  clock,      \* the server's time; it has advanced at every store write
  createdBy,  \* for each _id ever assigned, the caller of the create
  createdWith,\* for each _id ever assigned, the generation and the payload
  inflight,   \* the updates between their existence check and their write
  last,       \* the last request handled and its response
  users,      \* the users collection: a sequence of documents, _id = index
  signups,    \* the signups between their existence check and their save
  isConnected,\* MongoDBService.isConnected
  readyState, \* the state of the driver's connection
  cache,      \* the dashboard's `tasks` state: the cached task list
  requests,   \* the dashboard's requests that have not completed
  nodeEnv,    \* process.env.NODE_ENV
  apiKey      \* process.env.GOOGLE_GENAI_API_KEY

accounts == <<users, signups>>
connection == <<isConnected, readyState>>
client == <<cache, requests>>
environment == <<nodeEnv, apiKey>>

\* the state the task routes never touch
others == <<accounts, connection, client, environment>>

vars == <<variant, tasks, nextId, clock, createdBy, createdWith, inflight, last,
          others>>

\* ---------------------------------------------------------------- schemas
TitleMax == 255

\* Joi.string().required().max(255): undefined and '' are rejected
TitleValid(t) == t # Undef /\ t # EmptyStr /\ t # Null /\ Len(t) <= TitleMax

StatusValid(s) == s = Undef \/ s \in StatusValues
PriorityValid(p) == p = Undef \/ p \in PriorityValues

\* the extras sub-schema of the extras generation: reserved keys are typed,
\* unknown keys are let through
ExtrasValid(p) == p.hasExtras => PriorityValid(p.extras["priority"])

\* createTaskSchema.validate of the extras generation: `error`
CreateErrorExtras(p) ==
  \/ ~TitleValid(p.title)
  \/ ~StatusValid(p.status)
  \/ p.priority # Undef \/ p.dueDate # Undef \/ p.tags # Undef
  \/ ~ExtrasValid(p)

\* createTaskSchema.validate of the extras generation: `value`
CreateValueExtras(p) ==
  [p EXCEPT
     !.status = IF p.status = Undef THEN TaskStatusPending ELSE p.status,
     !.hasExtras = TRUE,
     !.extras = [k \in ExtraKeys |->
        IF p.extras[k] # Undef THEN p.extras[k]
        ELSE CASE k = "priority" -> TaskPriorityMedium
               [] k = "dueDate" -> Null
               [] k = "tags" -> EmptyTags
               [] OTHER -> Undef]]

\* createTaskSchema.validate of the flat generation: `error`
CreateErrorFlat(p) ==
  \/ ~TitleValid(p.title)
  \/ ~StatusValid(p.status)
  \/ ~PriorityValid(p.priority)

\* createTaskSchema.validate of the flat generation: `value`
CreateValueFlat(p) ==
  [p EXCEPT
     !.status = IF p.status = Undef THEN TaskStatusPending ELSE p.status,
     !.priority = IF p.priority = Undef THEN TaskPriorityMedium ELSE p.priority,
     !.dueDate = IF p.dueDate = Undef THEN Null ELSE p.dueDate,
     !.tags = IF p.tags = Undef THEN EmptyTags ELSE p.tags,
     !.hasExtras = TRUE]

\* updateTaskSchema.validate of the extras generation: `error`; .min(1)
\* rejects a payload with no key at all
UpdateErrorExtras(p) ==
  \/ p.title # Undef /\ ~TitleValid(p.title)
  \/ ~StatusValid(p.status)
  \/ p.priority # Undef \/ p.dueDate # Undef \/ p.tags # Undef
  \/ ~ExtrasValid(p)
  \/ p = NoPayload

\* updateTaskSchema.validate of the flat generation: `error`
UpdateErrorFlat(p) ==
  \/ p.title # Undef /\ ~TitleValid(p.title)
  \/ ~StatusValid(p.status)
  \/ ~PriorityValid(p.priority)

\* the message of the violation of `title`, undefined when there is none
TitleMessage(t, required) ==
  CASE t = Undef -> IF required THEN "\"title\" is required" ELSE Undef
    [] t = Null -> "\"title\" must be a string"
    [] t = EmptyStr -> "\"title\" is not allowed to be empty"
    [] Len(t) > TitleMax ->
         "\"title\" length must be less than or equal to 255 characters long"
    [] OTHER -> Undef

StatusMessage(s) ==
  IF StatusValid(s) THEN Undef
  ELSE "\"status\" must be one of [pending, in-progress, done]"

\* key is "priority" for the field, "extras.priority" for the nested one
PriorityMessage(v, key) ==
  IF PriorityValid(v) THEN Undef
  ELSE "\"" \o key \o "\" must be one of [low, medium, high]"

\* a key the schema does not declare
UnknownMessage(v, key) ==
  IF v = Undef THEN Undef ELSE "\"" \o key \o "\" is not allowed"

\* .min(1)
MinKeysMessage(p) ==
  IF p = NoPayload THEN "\"value\" must have at least 1 key" ELSE Undef

\* the constraints of each schema in the order Joi tests them: the declared
\* keys in the order of their declaration, then the undeclared keys, then
\* the rules of the object; each entry is the message of the violation, or
\* undefined when the constraint holds
CreateChecksExtras(p) ==
  << TitleMessage(p.title, TRUE), StatusMessage(p.status),
     IF p.hasExtras THEN PriorityMessage(p.extras["priority"], "extras.priority")
     ELSE Undef,
     UnknownMessage(p.priority, "priority"),
     UnknownMessage(p.dueDate, "dueDate"), UnknownMessage(p.tags, "tags") >>

CreateChecksFlat(p) ==
  << TitleMessage(p.title, TRUE), StatusMessage(p.status),
     PriorityMessage(p.priority, "priority") >>

UpdateChecksExtras(p) ==
  << TitleMessage(p.title, FALSE), StatusMessage(p.status),
     IF p.hasExtras THEN PriorityMessage(p.extras["priority"], "extras.priority")
     ELSE Undef,
     UnknownMessage(p.priority, "priority"),
     UnknownMessage(p.dueDate, "dueDate"), UnknownMessage(p.tags, "tags"),
     MinKeysMessage(p) >>

UpdateChecksFlat(p) ==
  << TitleMessage(p.title, FALSE), StatusMessage(p.status),
     PriorityMessage(p.priority, "priority") >>

\* error.details of a validation with abortEarly left off
Details(checks) == SelectSeq(checks, LAMBDA m : m # Undef)

\* the message of the last violation instead of the first
DetailsLastMessage(checks) ==
  IF Details(checks) = <<>> THEN Undef
  ELSE Details(checks)[Len(Details(checks))]

\* error.details[0].message
DetailsMessage(checks) ==
  IF Details(checks) = <<>> THEN Undef ELSE Details(checks)[1]

\* ---------------------------------------------------------------- mapping
\* mapTaskDocToType of the flat generation
MapFlat(id, doc) ==
  [shape |-> "flat", id |-> id, title |-> doc.title,
   description |-> doc.description, status |-> doc.status,
   priority |-> doc.priority,
   due_date |-> IF Falsy(doc.dueDate) THEN Null ELSE ToISOString(doc.dueDate),
   tags |-> Or(doc.tags, EmptyTags),
   hasExtras |-> TRUE, extras |-> doc.extras,
   user_id |-> doc.userId,
   created_at |-> doc.createdAt, updated_at |-> doc.updatedAt]

\* the object literal of mapTaskDocToType's `extras` in the extras
\* generation: the three computed keys, then the spread of every stored key
\* other than priority, dueDate and tags
MapExtrasObject(doc) ==
  LET extras == doc.extras
      computed == [k \in ExtraKeys |->
         CASE k = "priority" ->
                Or(extras["priority"], Or(doc.priority, TaskPriorityMedium))
           [] k = "due_date" -> Or(extras["dueDate"], Null)
           [] k = "tags" -> Or(extras["tags"], Or(doc.tags, EmptyTags))
           [] OTHER -> Undef]
      rest == [k \in ExtraKeys |->
         IF k \in {"priority", "dueDate", "tags"} THEN Undef ELSE extras[k]]
  IN Spread(computed, rest)

\* mapTaskDocToType of the extras generation
MapExtras(id, doc) ==
  [shape |-> "nested", id |-> id, title |-> doc.title,
   description |-> doc.description, status |-> doc.status,
   priority |-> Undef, due_date |-> Undef, tags |-> Undef,
   hasExtras |-> TRUE, extras |-> MapExtrasObject(doc),
   user_id |-> doc.userId,
   created_at |-> doc.createdAt, updated_at |-> doc.updatedAt]

mapTaskDocToType(v, id, doc) ==
  IF v = "flat" THEN MapFlat(id, doc) ELSE MapExtras(id, doc)

\* ---------------------------------------------------------------- inputs
Ex(o) == [k \in ExtraKeys |-> IF k \in DOMAIN o THEN o[k] ELSE Undef]

CreatePayloads ==
  { [NoPayload EXCEPT !.title = "t1", !.priority = "high",
       !.dueDate = DateStr1, !.tags = TagsWork,
       !.hasExtras = TRUE, !.extras = Ex([assignee |-> "y"])],
    [NoPayload EXCEPT !.title = "t1", !.hasExtras = TRUE,
       !.extras = Ex([priority |-> "high", dueDate |-> DateStr1,
                      tags |-> TagsWork, assignee |-> "y"])],
    [NoPayload EXCEPT !.title = "t1", !.priority = "low",
       !.hasExtras = TRUE, !.extras = Ex([priority |-> "high"])],
    [NoPayload EXCEPT !.title = "t1", !.hasExtras = TRUE,
       !.extras = Ex([dueDate |-> EmptyStr])] }

UpdatePayloads ==
  { NoPayload,
    [NoPayload EXCEPT !.hasExtras = TRUE, !.extras = Ex([category |-> "x"])],
    [NoPayload EXCEPT !.title = "t2",
       !.hasExtras = TRUE, !.extras = Ex([dueDate |-> DateStr2])],
    [NoPayload EXCEPT !.status = "done", !.priority = "low",
       !.dueDate = DateStr2, !.tags = TagsHome] }

\* a title of 256 characters
X16 == "xxxxxxxxxxxxxxxx"
X64 == X16 \o X16 \o X16 \o X16
LongTitle == X64 \o X64 \o X64 \o X64

\* request bodies that probe the validators: titles that are missing, empty,
\* blank, padded or too long, and values outside the enums
InputCreatePayloads ==
  { NoPayload,
    [NoPayload EXCEPT !.title = EmptyStr],
    [NoPayload EXCEPT !.title = " "],
    [NoPayload EXCEPT !.title = LongTitle],
    [NoPayload EXCEPT !.status = "bogus"],
    [NoPayload EXCEPT !.title = "t1", !.status = "bogus"],
    [NoPayload EXCEPT !.title = "t1", !.priority = "urgent"],
    [NoPayload EXCEPT !.title = "t1", !.hasExtras = TRUE,
       !.extras = Ex([priority |-> "urgent"])],
    [NoPayload EXCEPT !.title = "t1", !.priority = "urgent",
       !.hasExtras = TRUE, !.extras = Ex([priority |-> "urgent"])],
    [NoPayload EXCEPT !.title = " t1 ", !.hasExtras = TRUE,
       !.extras = Ex([assignee |-> "y"])] }

InputUpdatePayloads ==
  { NoPayload,
    [NoPayload EXCEPT !.status = "bogus"],
    [NoPayload EXCEPT !.title = EmptyStr, !.status = "bogus"],
    [NoPayload EXCEPT !.title = " "],
    [NoPayload EXCEPT !.hasExtras = TRUE,
       !.extras = Ex([priority |-> "urgent"])],
    [NoPayload EXCEPT !.title = "t2"] }

\* ---------------------------------------------------------------- store
\* the filter with the owner left out: { _id } alone
MatchesIdOnly(id, userId) == id \in DOMAIN tasks

\* an id that is not the text of an ObjectId
MalformedId == -1

\* mongoose.Types.ObjectId.isValid
ObjectIdIsValid(id) == id # MalformedId

\* Task.findOne({ _id, userId }) / Task.deleteOne / Task.findOneAndUpdate
\* filter, behind the guard `if (!ObjectId.isValid(id)) return null`
Matches(id, userId) ==
  ObjectIdIsValid(id) /\ id \in DOMAIN tasks /\ tasks[id].userId = userId

\* MongoDBService.getTaskById
getTaskById(id, userId) ==
  IF Matches(id, userId) THEN mapTaskDocToType(variant, id, tasks[id])
  ELSE NoBody

\* the ids in the opposite order: .sort({ createdAt: 1 })
RECURSIVE SortByCreatedAtAsc(_)
SortByCreatedAtAsc(ids) ==
  IF ids = {} THEN <<>>
  ELSE LET oldest == CHOOSE i \in ids :
                        \A j \in ids : tasks[i].createdAt <= tasks[j].createdAt
       IN <<oldest>> \o SortByCreatedAtAsc(ids \ {oldest})

\* the ids of Task.find({ userId }).sort({ createdAt: -1 })
RECURSIVE SortByCreatedAtDesc(_)
SortByCreatedAtDesc(ids) ==
  IF ids = {} THEN <<>>
  ELSE LET newest == CHOOSE i \in ids :
                        \A j \in ids : tasks[j].createdAt <= tasks[i].createdAt
       IN <<newest>> \o SortByCreatedAtDesc(ids \ {newest})

\* the listing with the owner filter left out: Task.find({})
getTasksOfAnyUser(userId) ==
  LET ids == SortByCreatedAtDesc(DOMAIN tasks)
  IN [n \in 1..Len(ids) |-> mapTaskDocToType(variant, ids[n], tasks[ids[n]])]

\* MongoDBService.getTasksByUserId
getTasksByUserId(userId) ==
  LET ids == SortByCreatedAtDesc({i \in DOMAIN tasks : tasks[i].userId = userId})
  IN [n \in 1..Len(ids) |-> mapTaskDocToType(variant, ids[n], tasks[ids[n]])]

\* the document `new Task({...})` of createTask, flat generation, as saved
NewDocFlat(value, userId) ==
  [userId |-> userId,
   title |-> Trim(value.title),
   description |-> IF value.description = Undef THEN EmptyStr
                   ELSE Trim(value.description),
   status |-> value.status,
   priority |-> value.priority,
   dueDate |-> IF Falsy(value.dueDate) THEN Null ELSE NewDate(value.dueDate),
   tags |-> Or(value.tags, EmptyTags),
   extras |-> value.extras,
   createdAt |-> clock, updatedAt |-> clock]

\* `taskExtras` of createTask, extras generation
TaskExtras(extras) ==
  Spread([k \in ExtraKeys |->
            CASE k = "priority" -> Or(extras["priority"], TaskPriorityMedium)
              [] k = "dueDate" -> Or(extras["dueDate"], Null)
              [] k = "tags" -> Or(extras["tags"], EmptyTags)
              [] OTHER -> Undef],
         extras)

\* the document `new Task({...})` of createTask, extras generation, as saved
NewDocExtras(value, userId) ==
  [userId |-> userId,
   title |-> Trim(value.title),
   description |-> Trim(Or(value.description, EmptyStr)),
   status |-> value.status,
   priority |-> Undef, dueDate |-> Undef, tags |-> Undef,
   extras |-> TaskExtras(value.extras),
   createdAt |-> clock, updatedAt |-> clock]

\* `mongoUpdates` of updateTask, flat generation, applied to the document.
\* The validated request names the date `dueDate`; updates.due_date is
\* never defined.
ApplyUpdatesFlat(doc, updates) ==
  LET due_date == Undef
  IN [doc EXCEPT
        !.title = IF updates.title # Undef THEN Trim(updates.title) ELSE @,
        !.description = IF updates.description # Undef
                        THEN Trim(updates.description) ELSE @,
        !.status = IF updates.status # Undef THEN updates.status ELSE @,
        !.priority = IF updates.priority # Undef THEN updates.priority ELSE @,
        !.dueDate = IF due_date # Undef
                    THEN (IF Falsy(due_date) THEN Null ELSE NewDate(due_date))
                    ELSE @,
        !.tags = IF updates.tags # Undef THEN updates.tags ELSE @,
        !.extras = IF updates.hasExtras THEN updates.extras ELSE @,
        !.updatedAt = clock]

\* `taskUpdates` of router.put, extras generation
TaskUpdates(existingTask, updates) ==
  [NoPayload EXCEPT
     !.title = IF ~Falsy(updates.title) THEN updates.title ELSE Undef,
     !.description = updates.description,
     !.status = IF ~Falsy(updates.status) THEN updates.status ELSE Undef,
     !.hasExtras = updates.hasExtras,
     !.extras = IF updates.hasExtras
                THEN Spread(existingTask.extras, updates.extras)
                ELSE EmptyObject]

\* `mongoUpdates` of updateTask, extras generation, applied to the document
ApplyUpdatesExtras(doc, updates) ==
  [doc EXCEPT
     !.title = IF updates.title # Undef THEN Trim(updates.title) ELSE @,
     !.description = IF updates.description # Undef
                     THEN Trim(updates.description) ELSE @,
     !.status = IF updates.status # Undef THEN updates.status ELSE @,
     !.extras = IF updates.hasExtras THEN updates.extras ELSE @,
     !.updatedAt = clock]

\* ---------------------------------------------------------------- handlers
\* the `user` and `token` members of an AuthResponse body, absent; the token
\* is shown by the payload it was signed over
NoAuth ==
  [id |-> 0, email |-> Undef, password |-> Undef,
   tokenId |-> 0, tokenEmail |-> Undef]

NoRequest ==
  [op |-> "none", user |-> Undef, id |-> 0, payload |-> NoPayload,
   token |-> Undef, status |-> 0, message |-> Undef, body |-> NoBody,
   list |-> <<>>, auth |-> NoAuth, stack |-> Undef, insight |-> Undef]

Response(op, user, id, payload, status, body) ==
  [op |-> op, user |-> user, id |-> id, payload |-> payload,
   token |-> "verified", status |-> status, message |-> Undef,
   body |-> body, list |-> <<>>, auth |-> NoAuth, stack |-> Undef,
   insight |-> Undef]

\* res.status(...).json({ error: { message } })
ErrorResponse(op, user, id, payload, status, message) ==
  [Response(op, user, id, payload, status, NoBody) EXCEPT !.message = message]

\* an Error thrown with a message and no status
Thrown(message) == [status |-> 0, message |-> message, stack |-> "stack"]

\* the error-handling middleware, reached through next(error)
errorHandler(err, response) ==
  [response EXCEPT
     !.status = IF err.status = 0 THEN 500 ELSE err.status,
     !.message = Or(err.message, "Internal Server Error"),
     !.stack = IF nodeEnv = "development" THEN err.stack ELSE Undef]

Extend(f, id, v) == [i \in DOMAIN f \cup {id} |-> IF i = id THEN v ELSE f[i]]

\* no user has signed up, the service is connected, the dashboard has
\* loaded an empty list, the server runs in production
OthersAtStart ==
  /\ users = <<>>
  /\ signups = {}
  /\ isConnected = TRUE
  /\ readyState = "connected"
  /\ cache = <<>>
  /\ requests = {}
  /\ nodeEnv = "production"
  /\ apiKey = "key"

Init ==
  /\ variant = "flat"
  /\ tasks = [i \in {} |-> 0]
  /\ nextId = 1
  /\ clock = 1
  /\ createdBy = [i \in {} |-> 0]
  /\ createdWith = [i \in {} |-> 0]
  /\ inflight = {}
  /\ last = NoRequest
  /\ OthersAtStart

\* the extras generation replaces the flat generation over the same
\* database, once the requests in progress have been answered
Deploy ==
  /\ variant = "flat"
  /\ inflight = {}
  /\ variant' = "extras"
  /\ last' = NoRequest
  /\ UNCHANGED <<tasks, nextId, clock, createdBy, createdWith, inflight, others>>

\* router.get('/')
ListTasks(u) ==
  /\ last' = [Response("listTasks", u, 0, NoPayload, 200, NoBody)
                EXCEPT !.list = getTasksByUserId(u)]
  /\ UNCHANGED <<variant, tasks, nextId, clock, createdBy, createdWith,
                  inflight, others>>

\* router.post('/'): the request is refused by createTaskSchema
CreateTaskInvalid(u, p) ==
  /\ IF variant = "flat" THEN CreateErrorFlat(p) ELSE CreateErrorExtras(p)
  /\ last' = ErrorResponse("createTask", u, 0, p, 400,
                          DetailsMessage(IF variant = "flat"
                                         THEN CreateChecksFlat(p)
                                         ELSE CreateChecksExtras(p)))
  /\ UNCHANGED <<variant, tasks, nextId, clock, createdBy, createdWith,
                  inflight, others>>

\* router.post('/') with MongoDBService.createTask
CreateTask(u, p) ==
  /\ ~(IF variant = "flat" THEN CreateErrorFlat(p) ELSE CreateErrorExtras(p))
  /\ nextId <= MaxTasks
  /\ clock < MaxClock
  /\ LET doc == IF variant = "flat"
                THEN NewDocFlat(CreateValueFlat(p), u)
                ELSE NewDocExtras(CreateValueExtras(p), u)
     IN IF doc.title = EmptyStr
        THEN \* task.save() rejects: title is required after trim
             /\ last' = errorHandler(
                          Thrown("Task validation failed: title: Path title is required."),
                          ErrorResponse("createTask", u, 0, p, 0, Undef))
             /\ UNCHANGED <<tasks, nextId, clock, createdBy, createdWith>>
        ELSE /\ tasks' = Extend(tasks, nextId, doc)
             /\ createdBy' = Extend(createdBy, nextId, u)
             /\ createdWith' = Extend(createdWith, nextId,
                                      [via |-> variant, payload |-> p])
             /\ nextId' = nextId + 1
             /\ clock' = clock + 1
             /\ last' = Response("createTask", u, nextId, p, 201,
                                 mapTaskDocToType(variant, nextId, doc))
  /\ UNCHANGED <<variant, inflight, others>>

\* router.put('/:id'): refused by updateTaskSchema, or no task of the caller
UpdateTaskRefused(u, id, p) ==
  LET error == IF variant = "flat" THEN UpdateErrorFlat(p)
               ELSE UpdateErrorExtras(p)
  IN /\ error \/ ~Matches(id, u)
     /\ last' = IF error
                THEN ErrorResponse("updateTask", u, id, p, 400,
                                   DetailsMessage(IF variant = "flat"
                                                  THEN UpdateChecksFlat(p)
                                                  ELSE UpdateChecksExtras(p)))
                ELSE ErrorResponse("updateTask", u, id, p, 404,
                                   "Task not found")
     /\ UNCHANGED <<variant, tasks, nextId, clock, createdBy, createdWith,
                  inflight, others>>

\* router.put('/:id') with MongoDBService.getTaskById and updateTask
UpdateTask(u, id, p) ==
  /\ ~(IF variant = "flat" THEN UpdateErrorFlat(p) ELSE UpdateErrorExtras(p))
  /\ clock < MaxClock
  /\ LET existingTask == getTaskById(id, u)
     IN /\ existingTask # NoBody
        /\ Matches(id, u)
        /\ LET doc == IF variant = "flat"
                      THEN ApplyUpdatesFlat(tasks[id], p)
                      ELSE ApplyUpdatesExtras(tasks[id],
                                              TaskUpdates(existingTask, p))
           IN /\ tasks' = [tasks EXCEPT ![id] = doc]
              /\ last' = Response("updateTask", u, id, p, 200,
                                  mapTaskDocToType(variant, id, doc))
  /\ clock' = clock + 1
  /\ UNCHANGED <<variant, nextId, createdBy, createdWith, inflight, others>>

\* router.delete('/:id') with MongoDBService.deleteTask: no task of the caller
DeleteTaskNotFound(u, id) ==
  /\ ~Matches(id, u)
  /\ last' = ErrorResponse("deleteTask", u, id, NoPayload, 404,
                          "Task not found")
  /\ UNCHANGED <<variant, tasks, nextId, clock, createdBy, createdWith,
                  inflight, others>>

\* a delete that answers 204 and leaves the document in the collection
DeleteTaskKeepsDocument(u, id) ==
  /\ Matches(id, u)
  /\ clock < MaxClock
  /\ last' = Response("deleteTask", u, id, NoPayload, 204, NoBody)
  /\ clock' = clock + 1
  /\ UNCHANGED <<variant, tasks, nextId, createdBy, createdWith, inflight, others>>

\* router.delete('/:id') with MongoDBService.deleteTask
DeleteTask(u, id) ==
  /\ Matches(id, u)
  /\ clock < MaxClock
  /\ tasks' = [i \in DOMAIN tasks \ {id} |-> tasks[i]]
  /\ last' = Response("deleteTask", u, id, NoPayload, 204, NoBody)
  /\ clock' = clock + 1
  /\ UNCHANGED <<variant, nextId, createdBy, createdWith, inflight, others>>

\* router.put('/:id') up to its existence check: the payload is valid and
\* getTaskById found the task; the write has not been issued yet
UpdateBeginUpTo(n, u, id, p) ==
  /\ ~(IF variant = "flat" THEN UpdateErrorFlat(p) ELSE UpdateErrorExtras(p))
  /\ Cardinality(inflight) < n
  /\ LET existingTask == getTaskById(id, u)
     IN /\ existingTask # NoBody
        /\ inflight' = inflight \cup
              {[user |-> u, id |-> id, payload |-> p,
                existingTask |-> existingTask]}
  /\ inflight' # inflight
  /\ UNCHANGED <<variant, tasks, nextId, clock, createdBy, createdWith, last, others>>

UpdateBegin(u, id, p) == UpdateBeginUpTo(MaxInflight, u, id, p)

\* router.put('/:id') from its call of MongoDBService.updateTask on:
\* findOneAndUpdate answers null when no task matches any more
UpdateWrite(r) ==
  /\ r \in inflight
  /\ inflight' = inflight \ {r}
  /\ IF Matches(r.id, r.user)
     THEN /\ clock < MaxClock
          /\ LET doc == IF variant = "flat"
                        THEN ApplyUpdatesFlat(tasks[r.id], r.payload)
                        ELSE ApplyUpdatesExtras(tasks[r.id],
                               TaskUpdates(r.existingTask, r.payload))
             IN /\ tasks' = [tasks EXCEPT ![r.id] = doc]
                /\ last' = Response("updateTask", r.user, r.id, r.payload, 200,
                                    mapTaskDocToType(variant, r.id, doc))
          /\ clock' = clock + 1
     ELSE /\ last' = ErrorResponse("updateTask", r.user, r.id, r.payload, 400,
                         IF variant = "flat" THEN "No valid fields to update"
                         ELSE "Update failed or no valid fields to update")
          /\ UNCHANGED <<tasks, clock>>
  /\ UNCHANGED <<variant, nextId, createdBy, createdWith, others>>

\* a task route called with a token that authenticateToken refuses: the
\* handler does not run
TaskRequestRejected(op, t) ==
  /\ AuthStatus(t) # 0
  /\ last' = [ErrorResponse(op, Undef, 0, NoPayload, AuthStatus(t),
                            AuthMessage(t)) EXCEPT !.token = t]
  /\ UNCHANGED <<variant, tasks, nextId, clock, createdBy, createdWith,
                  inflight, others>>

\* app.get('/api/health'): answers 200 { status: 'ok' } whatever the request
\* carries
Health(t) ==
  /\ last' = [Response("health", Undef, 0, NoPayload, 200, NoBody)
                EXCEPT !.token = t]
  /\ UNCHANGED <<variant, tasks, nextId, clock, createdBy, createdWith,
                  inflight, others>>

\* the ids a request may name: every id the store assigned so far, whether
\* its task is still stored or was deleted
TaskIds == DOMAIN createdBy

\* the ids a delete may name: the assigned ids, the id the store has not
\* assigned yet, and a malformed id
RequestIds == TaskIds \cup {nextId, MalformedId}

\* the callers of a create: user names are interchangeable, so the first task
\* of a run is taken to be created by u1
Creators == IF nextId = 1 THEN {"u1"} ELSE Users

Next ==
  \/ Deploy
  \/ \E u \in Users : ListTasks(u)
  \/ \E u \in Users, p \in CreatePayloads \cup {NoPayload} :
       CreateTaskInvalid(u, p)
  \/ \E u \in Creators, p \in CreatePayloads : CreateTask(u, p)
  \/ \E u \in Users, id \in TaskIds, p \in UpdatePayloads :
       UpdateTaskRefused(u, id, p)
  \/ \E u \in Users, id \in TaskIds, p \in UpdatePayloads : UpdateTask(u, id, p)
  \/ \E u \in Users, id \in RequestIds : DeleteTaskNotFound(u, id)
  \/ \E u \in Users, id \in TaskIds : DeleteTask(u, id)

Spec == Init /\ [][Next]_vars

\* the task routes driven with the request bodies that probe the validators
NextInput ==
  \/ Deploy
  \/ \E u \in Users, p \in InputCreatePayloads : CreateTaskInvalid(u, p)
  \/ \E u \in Creators, p \in InputCreatePayloads : CreateTask(u, p)
  \/ \E u \in Users, id \in TaskIds, p \in InputUpdatePayloads :
       UpdateTaskRefused(u, id, p)
  \/ \E u \in Users, id \in TaskIds, p \in InputUpdatePayloads :
       UpdateTask(u, id, p)

SpecInput == Init /\ [][NextInput]_vars

\* the callers of a create among the authenticated callers
AuthCreators == IF nextId = 1 THEN {"u1"} ELSE Callers

\* the task routes behind their middleware, and the health route
NextAuth ==
  \/ Deploy
  \/ \E op \in TaskOps, t \in Tokens : TaskRequestRejected(op, t)
  \/ \E t \in Tokens : Health(t)
  \/ \E u \in Callers : ListTasks(u)
  \/ \E u \in Callers, p \in CreatePayloads \cup {NoPayload} :
       CreateTaskInvalid(u, p)
  \/ \E u \in AuthCreators, p \in CreatePayloads : CreateTask(u, p)
  \/ \E u \in Callers, id \in TaskIds, p \in UpdatePayloads :
       UpdateTaskRefused(u, id, p)
  \/ \E u \in Callers, id \in TaskIds, p \in UpdatePayloads :
       UpdateTask(u, id, p)
  \/ \E u \in Callers, id \in TaskIds : DeleteTaskNotFound(u, id)
  \/ \E u \in Callers, id \in TaskIds : DeleteTask(u, id)

SpecAuth == Init /\ [][NextAuth]_vars

\* request bodies for runs of creates, updates and listings
OrderCreatePayloads == {[NoPayload EXCEPT !.title = "t1"]}

OrderUpdatePayloads ==
  { [NoPayload EXCEPT !.title = "t2"],
    [NoPayload EXCEPT !.status = "done", !.hasExtras = TRUE,
       !.extras = Ex([category |-> "x"])] }

\* the clock starts one tick earlier, which leaves room for one more store
\* write within the clock bound
InitEarly ==
  /\ variant = "flat"
  /\ tasks = [i \in {} |-> 0]
  /\ nextId = 1
  /\ clock = 0
  /\ createdBy = [i \in {} |-> 0]
  /\ createdWith = [i \in {} |-> 0]
  /\ inflight = {}
  /\ last = NoRequest
  /\ OthersAtStart

\* creates, updates and listings
NextOrder ==
  \/ Deploy
  \/ \E u \in Users : ListTasks(u)
  \/ \E u \in Creators, p \in OrderCreatePayloads : CreateTask(u, p)
  \/ \E u \in Users, id \in TaskIds, p \in OrderUpdatePayloads :
       UpdateTask(u, id, p)

SpecOrder == InitEarly /\ [][NextOrder]_vars

\* the task routes with the update handler taken in its two store calls, so
\* that other requests are served between them
NextConcurrent ==
  \/ Deploy
  \/ \E u \in Users : ListTasks(u)
  \/ \E u \in Creators, p \in CreatePayloads : CreateTask(u, p)
  \/ \E u \in Users, id \in TaskIds, p \in UpdatePayloads : UpdateBegin(u, id, p)
  \/ \E r \in inflight : UpdateWrite(r)
  \/ \E u \in Users, id \in TaskIds : DeleteTask(u, id)

SpecConcurrent == Init /\ [][NextConcurrent]_vars

\* two updates of one task by its owner, each adding a custom key, taken in
\* their two store calls and interleaved
RacingUpdatePayloads ==
  { [NoPayload EXCEPT !.hasExtras = TRUE, !.extras = Ex([category |-> "x"])],
    [NoPayload EXCEPT !.hasExtras = TRUE, !.extras = Ex([assignee |-> "y"])],
    [NoPayload EXCEPT !.title = "t2"] }

NextRacingUpdates ==
  \/ Deploy
  \/ \E p \in OrderCreatePayloads : CreateTask("u1", p)
  \/ \E id \in TaskIds, p \in RacingUpdatePayloads :
       UpdateBeginUpTo(MaxInflight + 1, "u1", id, p)
  \/ \E r \in inflight : UpdateWrite(r)

SpecRacingUpdates == InitEarly /\ [][NextRacingUpdates]_vars

\* ---------------------------------------------------------------- accounts
MaxUsers == 2
MaxSignups == 2

\* the credentials a request may carry: one address in two casings, a second
\* address, a string that is no address; two strong passwords, one of eight
\* lowercase letters, one of five characters
Emails == {"a@x.com", "A@X.com", "b@x.com", "not-an-email"}
Passwords == {"Passw0rd!", "Other0rd!", "password", "short"}

\* Joi.string().email()
EmailValid(e) == e \in {"a@x.com", "A@X.com", "b@x.com"}

\* String.prototype.length
PasswordLength(p) ==
  CASE p = "short" -> 5
    [] p = "password" -> 8
    [] OTHER -> 9

\* the character classes the regular expressions of validatePassword find
PasswordClasses(p) ==
  CASE p = "short" -> {"lower"}
    [] p = "password" -> {"lower"}
    [] OTHER -> {"lower", "upper", "digit", "special"}

PasswordMin == 8

\* authSchema.validate(req.body).error.details[0].message, Undef for none
AuthSchemaError(e, p) ==
  IF ~EmailValid(e) THEN "\"email\" must be a valid email"
  ELSE IF PasswordLength(p) < PasswordMin
       THEN "\"password\" length must be at least 8 characters long"
       ELSE Undef

\* loginSchema.validate(req.body).error.details[0].message, Undef for none
LoginSchemaError(e, p) ==
  IF ~EmailValid(e) THEN "\"email\" must be a valid email" ELSE Undef

\* the message of validatePassword, Undef when isValid
validatePassword(p) ==
  IF PasswordLength(p) < PasswordMin
    THEN "Password must be at least 8 characters long"
  ELSE IF "lower" \notin PasswordClasses(p)
    THEN "Password must contain at least one lowercase letter"
  ELSE IF "upper" \notin PasswordClasses(p)
    THEN "Password must contain at least one uppercase letter"
  ELSE IF "digit" \notin PasswordClasses(p)
    THEN "Password must contain at least one number"
  ELSE IF "special" \notin PasswordClasses(p)
    THEN "Password must contain at least one special character (@$!%*?&)"
  ELSE Undef

\* a setter that keeps the casing
KeepCase(e) == e

\* String.prototype.toLowerCase, the schema's `lowercase: true` setter; it
\* runs when a document is built and when a query filter is cast
ToLowerCase(e) ==
  CASE e = "A@X.com" -> "a@x.com"
    [] OTHER -> e

\* bcrypt.hash(password, 10): a string that is no password and that
\* bcrypt.compare matches with its password alone
Hash(p) == "$2a$10$" \o p

Compare(p, hash) == hash = Hash(p)

\* new User({ email, password: hashedPassword }) with the schema's setters
NewUser(email, hashedPassword) ==
  [email |-> ToLowerCase(Trim(email)), password |-> hashedPassword,
   createdAt |-> clock, updatedAt |-> clock]

mapUserDocToType(id, doc) ==
  [id |-> id, email |-> doc.email, password |-> doc.password,
   created_at |-> ToISOString(doc.createdAt),
   updated_at |-> ToISOString(doc.updatedAt)]

NullUser ==
  [id |-> 0, email |-> Null, password |-> Null,
   created_at |-> Null, updated_at |-> Null]

\* the unique index on email: the documents holding the address as stored
Holders(email) ==
  {i \in DOMAIN users : users[i].email = ToLowerCase(Trim(email))}

\* User.findOne({ email }).lean(), mapped; NullUser for null
getUserByEmail(email) ==
  IF Holders(email) = {} THEN NullUser
  ELSE LET i == CHOOSE i \in Holders(email) : TRUE
       IN mapUserDocToType(i, users[i])

Credentials(e, p) == [email |-> e, password |-> p]

\* the route's copy of the user with the password handed on as well
AuthBodyWithPassword(user, email) ==
  [id |-> user.id, email |-> email, password |-> user.password,
   tokenId |-> user.id, tokenEmail |-> email]

\* { user: { id, email, created_at, updated_at }, token } with
\* token = jwt.sign({ id, email }, jwtSecret)
AuthBody(user, email) ==
  [id |-> user.id, email |-> email, password |-> Undef,
   tokenId |-> user.id, tokenEmail |-> email]

AuthResponse(op, e, p, status, user, email) ==
  [Response(op, Undef, 0, Credentials(e, p), status, NoBody)
     EXCEPT !.token = Undef, !.auth = AuthBody(user, email)]

AuthError(op, e, p, status, message) ==
  [ErrorResponse(op, Undef, 0, Credentials(e, p), status, message)
     EXCEPT !.token = Undef]

TasksUnchanged ==
  UNCHANGED <<variant, tasks, nextId, clock, createdBy, createdWith, inflight>>

\* POST /signup refused by the schema or by validatePassword
SignupInvalid(e, p) ==
  /\ AuthSchemaError(e, p) # Undef \/ validatePassword(p) # Undef
  /\ last' = AuthError("signup", e, p, 400,
                       IF AuthSchemaError(e, p) # Undef
                       THEN AuthSchemaError(e, p) ELSE validatePassword(p))
  /\ TasksUnchanged
  /\ UNCHANGED others

\* POST /signup for an address getUserByEmail finds
SignupExists(e, p) ==
  /\ AuthSchemaError(e, p) = Undef
  /\ validatePassword(p) = Undef
  /\ getUserByEmail(e).id # 0
  /\ last' = AuthError("signup", e, p, 400,
                       "User already exists with this email")
  /\ TasksUnchanged
  /\ UNCHANGED others

\* POST /signup, with no other request between its check and its save
Signup(e, p) ==
  /\ AuthSchemaError(e, p) = Undef
  /\ validatePassword(p) = Undef
  /\ getUserByEmail(e).id = 0
  /\ Len(users) < MaxUsers
  /\ users' = Append(users, NewUser(e, Hash(p)))
  /\ last' = AuthResponse("signup", e, p, 201,
                          mapUserDocToType(Len(users'), users'[Len(users')]), e)
  /\ TasksUnchanged
  /\ UNCHANGED <<signups, connection, client, environment>>

\* POST /signup up to and with its existence check, which finds no user
SignupBegin(e, p) ==
  /\ AuthSchemaError(e, p) = Undef
  /\ validatePassword(p) = Undef
  /\ getUserByEmail(e).id = 0
  /\ Cardinality(signups) < MaxSignups
  /\ Credentials(e, p) \notin signups
  /\ signups' = signups \cup {Credentials(e, p)}
  /\ TasksUnchanged
  /\ UNCHANGED <<last, users, connection, client, environment>>

\* POST /signup from createUser on: the save fails with code 11000 when
\* the unique index holds the address, and createUser throws an Error
SignupCreate(r) ==
  /\ r \in signups
  /\ signups' = signups \ {r}
  /\ IF Holders(r.email) # {}
     THEN /\ last' = errorHandler(
                       Thrown("User with this email already exists"),
                       AuthError("signup", r.email, r.password, 0, Undef))
          /\ UNCHANGED users
     ELSE /\ Len(users) < MaxUsers
          /\ users' = Append(users, NewUser(r.email, Hash(r.password)))
          /\ last' = AuthResponse("signup", r.email, r.password, 201,
                       mapUserDocToType(Len(users'), users'[Len(users')]),
                       r.email)
  /\ TasksUnchanged
  /\ UNCHANGED <<connection, client, environment>>

\* POST /login refused by the schema
LoginInvalid(e, p) ==
  /\ LoginSchemaError(e, p) # Undef
  /\ last' = AuthError("login", e, p, 400, LoginSchemaError(e, p))
  /\ TasksUnchanged
  /\ UNCHANGED others

\* the answer of POST /login that tells an unknown address from a wrong
\* password
LoginAnswerTelling(e, p) ==
  LET user == getUserByEmail(e) IN
  IF user.id = 0
  THEN AuthError("login", e, p, 404, "User not found")
  ELSE IF ~Compare(p, Or(user.password, EmptyStr))
       THEN AuthError("login", e, p, 401, "Invalid credentials")
       ELSE AuthResponse("login", e, p, 200, user, user.email)

LoginAnswer(e, p) ==
  LET user == getUserByEmail(e) IN
  IF user.id = 0
  THEN AuthError("login", e, p, 401, "Invalid credentials")
  ELSE IF ~Compare(p, Or(user.password, EmptyStr))
       THEN AuthError("login", e, p, 401, "Invalid credentials")
       ELSE AuthResponse("login", e, p, 200, user, user.email)

\* POST /login
Login(e, p) ==
  /\ LoginSchemaError(e, p) = Undef
  /\ last' = LoginAnswer(e, p)
  /\ TasksUnchanged
  /\ UNCHANGED others

NextAccounts ==
  \/ \E e \in Emails, p \in Passwords : SignupInvalid(e, p)
  \/ \E e \in Emails, p \in Passwords : SignupExists(e, p)
  \/ \E e \in Emails, p \in Passwords : Signup(e, p)
  \/ \E e \in Emails, p \in Passwords : LoginInvalid(e, p)
  \/ \E e \in Emails, p \in Passwords : Login(e, p)

SpecAccounts == Init /\ [][NextAccounts]_vars

NextSignupRace ==
  \/ \E e \in Emails, p \in Passwords : SignupInvalid(e, p)
  \/ \E e \in Emails, p \in Passwords : SignupExists(e, p)
  \/ \E e \in Emails, p \in Passwords : SignupBegin(e, p)
  \/ \E r \in signups : SignupCreate(r)
  \/ \E e \in Emails, p \in Passwords : LoginInvalid(e, p)
  \/ \E e \in Emails, p \in Passwords : Login(e, p)

SpecSignupRace == Init /\ [][NextSignupRace]_vars

\* ---------------------------------------------------------------- insights
\* what model.generateContent does: it answers with text, or it throws (the
\* service is unreachable, or it refuses the request)
Collaborator == {"text", "throws"}

CollaboratorError ==
  "[GoogleGenerativeAI Error]: Error fetching from generativelanguage.googleapis.com: fetch failed"

\* req.body.tasks: an array, or absent
InsightsArgs == {"array", Undef}

InsightsPayload(arg) == [tasks |-> arg]

\* router.post('/insights')
Insights(u, arg, outcome) ==
  /\ last' =
       IF arg # "array"
       THEN ErrorResponse("insights", u, 0, InsightsPayload(arg), 400,
                          "Tasks array is required")
       ELSE IF Falsy(apiKey)
       THEN ErrorResponse("insights", u, 0, InsightsPayload(arg), 500,
                          "Gemini API key not configured")
       ELSE IF outcome = "throws"
       THEN errorHandler(Thrown(CollaboratorError),
                         ErrorResponse("insights", u, 0, InsightsPayload(arg),
                                       0, Undef))
       ELSE [Response("insights", u, 0, InsightsPayload(arg), 200, NoBody)
               EXCEPT !.insight = "recommendations"]
  /\ TasksUnchanged
  /\ UNCHANGED others

\* getTaskInsights of the client-side service, which calls the collaborator
\* from the browser with the key the bundle was built with
getTaskInsights(key, totalCount, outcome) ==
  IF Falsy(key)
  THEN "The Gemini API key is not configured. Please add it to your environment variables to use this feature."
  ELSE IF totalCount = 0
  THEN "You don't have any tasks yet. Add some tasks to get productivity insights!"
  ELSE IF outcome = "throws"
  THEN "Sorry, I couldn't generate insights at the moment. Please check your API key and try again later."
  ELSE "recommendations"

GetTaskInsights(key, totalCount, outcome) ==
  /\ last' = [NoRequest EXCEPT
                !.op = "getTaskInsights",
                !.payload = InsightsPayload("array"),
                !.insight = getTaskInsights(key, totalCount, outcome)]
  /\ TasksUnchanged
  /\ UNCHANGED others

\* a title that passes Joi and that the schema's trim empties
BlankTitle == [NoPayload EXCEPT !.title = " "]

\* the server may run in development or in production, with or without
\* the collaborator's key
InitErrors ==
  /\ variant = "flat"
  /\ tasks = [i \in {} |-> 0]
  /\ nextId = 1
  /\ clock = 1
  /\ createdBy = [i \in {} |-> 0]
  /\ createdWith = [i \in {} |-> 0]
  /\ inflight = {}
  /\ last = NoRequest
  /\ users = <<>>
  /\ signups = {}
  /\ isConnected = TRUE
  /\ readyState = "connected"
  /\ cache = <<>>
  /\ requests = {}
  /\ nodeEnv \in {"production", "development"}
  /\ apiKey \in {Undef, "key"}

ErrorEmails == {"a@x.com", "A@X.com"}

NextErrors ==
  \/ Deploy
  \/ \E arg \in InsightsArgs, outcome \in Collaborator :
       Insights("u1", arg, outcome)
  \/ \E key \in {Undef, "key"}, n \in {0, 1}, outcome \in Collaborator :
       GetTaskInsights(key, n, outcome)
  \/ CreateTaskInvalid("u1", NoPayload)
  \/ CreateTask("u1", BlankTitle)
  \/ \E e \in ErrorEmails : SignupBegin(e, "Passw0rd!")
  \/ \E r \in signups : SignupCreate(r)
  \/ \E e \in ErrorEmails, p \in {"Passw0rd!", "Other0rd!"} : Login(e, p)

SpecErrors == InitErrors /\ [][NextErrors]_vars

\* ---------------------------------------------------------------- dashboard
\* The dashboard of user u1 against the extras generation. A request holds
\* the `tasks` its handler closed over when it was called (snapshot); it is
\* sent, then answered, then its handler resumes after the await.
DashboardUser == "u1"

\* the body apiService.createTask sends for the dashboard's seven
\* arguments: its fourth parameter, extras, receives taskData.priority,
\* which the modal does not set, and defaults to {}
ClientCreatePayload ==
  [NoPayload EXCEPT !.title = "t1", !.description = "d", !.status = "pending",
                    !.hasExtras = TRUE, !.extras = EmptyObject]

\* the body apiService.updateTask sends: the modal's taskData
ClientUpdatePayload ==
  [NoPayload EXCEPT !.title = "t2", !.description = "d", !.status = "done",
                    !.hasExtras = TRUE,
                    !.extras = Ex([priority |-> "medium", tags |-> EmptyTags])]

ClientPayload(kind) ==
  CASE kind = "create" -> ClientCreatePayload
    [] kind = "update" -> ClientUpdatePayload
    [] OTHER -> NoPayload

ServerOp(kind) ==
  CASE kind = "create" -> "createTask"
    [] kind = "update" -> "updateTask"
    [] OTHER -> "deleteTask"

CachedIds == {cache[i].id : i \in DOMAIN cache}

\* response.ok
Ok(status) == status \in 200..299

\* tasks.filter(t => t.id !== taskId)
FilterOut(list, id) == SelectSeq(list, LAMBDA t : t.id # id)

\* tasks.map(t => t.id === taskToEdit.id ? updatedTask : t)
MapReplace(list, id, updatedTask) ==
  [i \in DOMAIN list |-> IF list[i].id = id THEN updatedTask ELSE list[i]]

\* a handler that changes the list before it calls the server
ClientIssueOptimistic(n, kind, id) ==
  /\ variant = "extras"
  /\ Cardinality(requests) < n
  /\ kind = "create" => id = 0
  /\ kind # "create" => id \in CachedIds
  /\ \A r \in requests : r.kind = "delete"
  /\ requests' = requests \cup
       {[kind |-> kind, id |-> id, payload |-> ClientPayload(kind),
         snapshot |-> cache, phase |-> "sent", status |-> 0, body |-> NoBody]}
  /\ requests' # requests
  /\ cache' = IF kind = "delete" THEN FilterOut(cache, id) ELSE cache
  /\ TasksUnchanged
  /\ UNCHANGED <<last, accounts, connection, environment>>

\* handleDeleteTask / handleSaveTask up to their await: the request is
\* sent. The modal allows one save at a time and covers the task cards
\* until its save has completed, so a handler is called while nothing but
\* deletes are awaited.
ClientIssueUpTo(n, kind, id) ==
  /\ variant = "extras"
  /\ Cardinality(requests) < n
  /\ kind = "create" => id = 0
  /\ kind # "create" => id \in CachedIds
  /\ \A r \in requests : r.kind = "delete"
  /\ requests' = requests \cup
       {[kind |-> kind, id |-> id, payload |-> ClientPayload(kind),
         snapshot |-> cache, phase |-> "sent", status |-> 0, body |-> NoBody]}
  /\ requests' # requests
  /\ TasksUnchanged
  /\ UNCHANGED <<last, cache, accounts, connection, environment>>

\* the server handles a request that was sent, once the response before
\* it has left
Serve(r) ==
  /\ r \in requests
  /\ r.phase = "sent"
  /\ last.op = "none"
  /\ CASE r.kind = "create" ->
            \/ CreateTaskInvalid(DashboardUser, r.payload)
            \/ CreateTask(DashboardUser, r.payload)
       [] r.kind = "update" ->
            \/ UpdateTaskRefused(DashboardUser, r.id, r.payload)
            \/ UpdateTask(DashboardUser, r.id, r.payload)
       [] OTHER ->
            \/ DeleteTaskNotFound(DashboardUser, r.id)
            \/ DeleteTask(DashboardUser, r.id)

\* apiFetch receives the response to a request
Deliver(r) ==
  /\ r \in requests
  /\ r.phase = "sent"
  /\ last.op = ServerOp(r.kind)
  /\ last.payload = r.payload
  /\ r.kind # "create" => last.id = r.id
  /\ requests' = (requests \ {r}) \cup
       {[r EXCEPT !.phase = "answered", !.status = last.status,
                  !.body = last.body]}
  /\ last' = NoRequest
  /\ TasksUnchanged
  /\ UNCHANGED <<cache, accounts, connection, environment>>

\* fetch rejects with a TypeError before the request reaches the server
NetworkError(r) ==
  /\ r \in requests
  /\ r.phase = "sent"
  /\ last.op = "none"
  /\ requests' = (requests \ {r}) \cup {[r EXCEPT !.phase = "answered"]}
  /\ TasksUnchanged
  /\ UNCHANGED <<last, cache, accounts, connection, environment>>

\* the value the handler passes to setTasks
SetTasks(r) ==
  CASE r.kind = "delete" -> FilterOut(r.snapshot, r.id)
    [] r.kind = "update" -> MapReplace(r.snapshot, r.id, r.body)
    [] OTHER -> Append(r.snapshot, r.body)

\* handleDeleteTask / handleSaveTask after their await: setTasks when
\* apiFetch returned, setError or rethrow when it threw
ClientComplete(r) ==
  /\ r \in requests
  /\ r.phase = "answered"
  /\ requests' = requests \ {r}
  /\ cache' = IF Ok(r.status) THEN SetTasks(r) ELSE cache
  /\ TasksUnchanged
  /\ UNCHANGED <<last, accounts, connection, environment>>

ClientKinds == {"create", "update", "delete"}

\* the dashboard with one request at a time
NextClientSerial ==
  \/ Deploy
  \/ \E kind \in ClientKinds, id \in CachedIds \cup {0} :
       ClientIssueUpTo(1, kind, id)
  \/ \E r \in requests : Serve(r)
  \/ \E r \in requests : Deliver(r)
  \/ \E r \in requests : NetworkError(r)
  \/ \E r \in requests : ClientComplete(r)

SpecClientSerial == InitEarly /\ [][NextClientSerial]_vars

\* the dashboard with a second request called while the first is awaited
NextClient ==
  \/ Deploy
  \/ \E kind \in ClientKinds, id \in CachedIds \cup {0} :
       ClientIssueUpTo(MaxInflight + 1, kind, id)
  \/ \E r \in requests : Serve(r)
  \/ \E r \in requests : Deliver(r)
  \/ \E r \in requests : NetworkError(r)
  \/ \E r \in requests : ClientComplete(r)

SpecClient == InitEarly /\ [][NextClient]_vars

\* ---------------------------------------------------------------- connection
\* readyState is "uninitialized" until startServer calls initializeDatabase,
\* then "connected" or "disconnected" as the driver's connection is

\* MongoDBService.connect, called once, by initializeDatabase at startup
Connect ==
  /\ readyState = "uninitialized"
  /\ ~isConnected
  /\ readyState' = "connected"
  /\ isConnected' = TRUE
  /\ TasksUnchanged
  /\ UNCHANGED <<last, accounts, client, environment>>

\* the connection is lost: mongoose emits 'disconnected'
ConnectionLost ==
  /\ readyState = "connected"
  /\ readyState' = "disconnected"
  /\ isConnected' = FALSE
  /\ TasksUnchanged
  /\ UNCHANGED <<last, accounts, client, environment>>

\* mongoose emits 'error' on a connection that stays up
ConnectionError ==
  /\ readyState = "connected"
  /\ isConnected' = FALSE
  /\ TasksUnchanged
  /\ UNCHANGED <<last, readyState, accounts, client, environment>>

\* the driver reconnects by itself; the service listens to no event for it
Reconnected ==
  /\ readyState = "disconnected"
  /\ readyState' = "connected"
  /\ TasksUnchanged
  /\ UNCHANGED <<last, isConnected, accounts, client, environment>>

\* MongoDBService.healthCheck().status
healthCheck ==
  IF ~isConnected THEN "error"
  ELSE IF readyState = "connected" THEN "ok" ELSE "error"

\* router.get('/health') of the system routes
SystemHealth ==
  /\ last' = [Response("systemHealth", Undef, 0, NoPayload,
                       IF healthCheck = "ok" THEN 200 ELSE 503, NoBody)
                EXCEPT !.token = Undef,
                       !.message = IF healthCheck = "ok"
                                   THEN "Database is healthy"
                                   ELSE "Database health check failed"]
  /\ TasksUnchanged
  /\ UNCHANGED others

\* the server before startServer has connected
InitHealth ==
  /\ variant = "flat"
  /\ tasks = [i \in {} |-> 0]
  /\ nextId = 1
  /\ clock = 1
  /\ createdBy = [i \in {} |-> 0]
  /\ createdWith = [i \in {} |-> 0]
  /\ inflight = {}
  /\ last = NoRequest
  /\ users = <<>>
  /\ signups = {}
  /\ isConnected = FALSE
  /\ readyState = "uninitialized"
  /\ cache = <<>>
  /\ requests = {}
  /\ nodeEnv = "production"
  /\ apiKey = "key"

\* the connection's events, the health route, and task routes served
\* while the connection is up
NextHealth ==
  \/ Connect
  \/ ConnectionLost
  \/ ConnectionError
  \/ Reconnected
  \/ SystemHealth
  \/ Deploy
  \/ \E u \in Users : readyState = "connected" /\ ListTasks(u)
  \/ \E u \in Users, p \in OrderCreatePayloads :
       readyState = "connected" /\ CreateTask(u, p)
  \/ \E u \in Users, id \in TaskIds :
       readyState = "connected" /\ DeleteTask(u, id)

SpecHealth == InitHealth /\ [][NextHealth]_vars

\* ---------------------------------------------------------------- claims
\* the deployed generation's updateTaskSchema refuses the payload
UpdateError(p) ==
  IF variant = "flat" THEN UpdateErrorFlat(p) ELSE UpdateErrorExtras(p)

\* the step answers an update or a delete that names a stored task of
\* another user
CrossOwnerStep ==
  /\ last'.op \in {"updateTask", "deleteTask"}
  /\ last'.id \in DOMAIN tasks
  /\ tasks[last'.id].userId # last'.user

\* C1 (as stated): an update or delete by a user on another user's task is
\* answered 404, returns no task data and leaves the store unchanged.
C1_CrossOwnerAlways404 ==
  [][CrossOwnerStep =>
       /\ last'.status = 404
       /\ last'.body = NoBody
       /\ tasks' = tasks]_vars

\* C1 (amended): an update or delete by a user on another user's task never
\* returns task data and leaves the store unchanged; it is answered 404,
\* except an update whose payload the validator refuses, which is answered
\* 400 before the task is looked up.
C1_CrossOwnerIsolation ==
  [][CrossOwnerStep =>
       /\ last'.status = IF last'.op = "updateTask" /\ UpdateError(last'.payload)
                         THEN 400 ELSE 404
       /\ last'.body = NoBody
       /\ tasks' = tasks]_vars

C1_Witness ==
  /\ last.op = "updateTask"
  /\ last.status = 404
  /\ last.id \in DOMAIN tasks
  /\ tasks[last.id].userId # last.user
  /\ last.payload # NoPayload

ListedIds == {last.list[n].id : n \in 1..Len(last.list)}

\* C2: every stored task is owned by the caller of its create, and a
\* listing for u holds exactly the stored tasks created by u, once each, and
\* no task of another user.
C2_OwnerScoped ==
  /\ \A id \in DOMAIN tasks : tasks[id].userId = createdBy[id]
  /\ last.op = "listTasks" =>
       /\ ListedIds = {id \in DOMAIN tasks : createdBy[id] = last.user}
       /\ Len(last.list) = Cardinality(ListedIds)
       /\ \A n \in 1..Len(last.list) : last.list[n].user_id = last.user

C2_Witness ==
  /\ last.op = "listTasks"
  /\ Len(last.list) >= 1
  /\ \E id \in DOMAIN tasks : createdBy[id] # last.user

\* how a response exposes the reserved fields: as fields of the task in the
\* flat shape, inside `extras` in the nested shape
ViewPriority(b) == IF b.shape = "flat" THEN b.priority ELSE b.extras["priority"]
ViewDueDate(b) == IF b.shape = "flat" THEN b.due_date ELSE b.extras["due_date"]
ViewTags(b) == IF b.shape = "flat" THEN b.tags ELSE b.extras["tags"]

\* the instant a due date value denotes, null for "no due date"
DateOf(s) == IF Falsy(s) THEN Null ELSE NewDate(s)

\* the value a payload supplies for a reserved key: the top-level one, else
\* the one nested in extras
Supplied(p, k) ==
  IF p[k] # Undef THEN p[k]
  ELSE IF p.hasExtras THEN p.extras[k] ELSE Undef

\* what a read of the stored task answers before the step
Before(id) == mapTaskDocToType(variant, id, tasks[id])

SuccessfulUpdateStep ==
  /\ last'.op = "updateTask"
  /\ last'.status = 200
  /\ last'.id \in DOMAIN tasks

OnlyCustomExtras(p) ==
  /\ p.title = Undef /\ p.description = Undef /\ p.status = Undef
  /\ p.priority = Undef /\ p.dueDate = Undef /\ p.tags = Undef
  /\ p.hasExtras
  /\ Keys(p.extras) # {}
  /\ Keys(p.extras) \subseteq CustomKeys

\* C3: an update whose payload carries only custom extras keys merges them
\* into the stored extras: every custom key stored before and not named in
\* the payload keeps its value, every named key takes the payload's value.
C3_MergeLaw ==
  [][SuccessfulUpdateStep /\ OnlyCustomExtras(last'.payload) =>
       \A k \in CustomKeys :
          LET want == IF last'.payload.extras[k] # Undef
                      THEN last'.payload.extras[k]
                      ELSE tasks[last'.id].extras[k]
          IN /\ tasks'[last'.id].extras[k] = want
             /\ last'.body.extras[k] = want]_vars

\* C4: an update leaves every field absent from its payload as it was: title,
\* description, status, priority, dueDate, tags and each custom extras key.
C4_AbsentFieldsKept ==
  [][SuccessfulUpdateStep =>
       LET p == last'.payload
           before == Before(last'.id)
           after == last'.body
       IN /\ p.title = Undef => after.title = before.title
          /\ p.description = Undef => after.description = before.description
          /\ p.status = Undef => after.status = before.status
          /\ Supplied(p, "priority") = Undef =>
               ViewPriority(after) = ViewPriority(before)
          /\ Supplied(p, "dueDate") = Undef =>
               ViewDueDate(after) = ViewDueDate(before)
          /\ Supplied(p, "tags") = Undef => ViewTags(after) = ViewTags(before)
          /\ \A k \in CustomKeys :
               (p.hasExtras => p.extras[k] = Undef) =>
                  after.extras[k] = before.extras[k]]_vars

\* C5: a successful update answers, for every field its payload supplies,
\* exactly the supplied value, with a later updatedAt.
C5_SuppliedFieldsApplied ==
  [][SuccessfulUpdateStep =>
       LET p == last'.payload
           after == last'.body
       IN /\ after = mapTaskDocToType(variant', last'.id, tasks'[last'.id])
          /\ p.title # Undef => after.title = p.title
          /\ p.description # Undef => after.description = p.description
          /\ p.status # Undef => after.status = p.status
          /\ Supplied(p, "priority") # Undef =>
               ViewPriority(after) = Supplied(p, "priority")
          /\ Supplied(p, "dueDate") # Undef =>
               DateOf(ViewDueDate(after)) = DateOf(Supplied(p, "dueDate"))
          /\ Supplied(p, "tags") # Undef =>
               ViewTags(after) = Supplied(p, "tags")
          /\ after.updated_at > tasks[last'.id].updatedAt]_vars

\* C6: the task a create returns has priority, dueDate and tags as fields of
\* the task itself, and its extras holds no reserved key.
C6_CreateResponseShape ==
  (last.op = "createTask" /\ last.status = 201) =>
     /\ last.body.priority # Undef
     /\ last.body.due_date # Undef
     /\ last.body.tags # Undef
     /\ Keys(last.body.extras) \cap ReservedKeys = {}

\* the values a create payload stands for: what it supplies, else the
\* documented defaults
LogicalValues(p) ==
  [title |-> p.title,
   description |-> IF p.description = Undef THEN EmptyStr ELSE p.description,
   status |-> IF p.status = Undef THEN TaskStatusPending ELSE p.status,
   priority |-> IF Supplied(p, "priority") = Undef THEN TaskPriorityMedium
                ELSE Supplied(p, "priority"),
   dueDate |-> DateOf(Supplied(p, "dueDate")),
   tags |-> IF Supplied(p, "tags") = Undef THEN EmptyTags
            ELSE Supplied(p, "tags"),
   custom |-> [k \in CustomKeys |-> p.extras[k]]]

\* the values a response shows, whatever its shape
ShownValues(b) ==
  [title |-> b.title, description |-> b.description, status |-> b.status,
   priority |-> ViewPriority(b), dueDate |-> DateOf(ViewDueDate(b)),
   tags |-> ViewTags(b), custom |-> [k \in CustomKeys |-> b.extras[k]]]

\* C7: a listing shows every task that was created by the deployed code and
\* not updated since with the values of its create payload, or the defaults
\* where the payload is silent, and with exactly the payload's custom keys.
C7_ReadAfterCreate ==
  last.op = "listTasks" =>
     \A n \in 1..Len(last.list) :
        LET b == last.list[n]
            c == createdWith[b.id]
        IN (b.updated_at = b.created_at /\ c.via = variant) =>
              ShownValues(b) = LogicalValues(c.payload)

\* the stored document holds reserved key k both as a document field and
\* inside its stored extras
StoredTwice(doc, k) == doc[k] # Undef /\ doc.extras[k] # Undef

\* C8: when a stored task holds a reserved key both as a document field and
\* inside its stored extras, a listing shows the document field's value.
C8_StoredTopLevelWins ==
  last.op = "listTasks" =>
     \A n \in 1..Len(last.list) :
        LET b == last.list[n]
            doc == tasks[b.id]
        IN /\ StoredTwice(doc, "priority") => ViewPriority(b) = doc.priority
           /\ StoredTwice(doc, "dueDate") =>
                DateOf(ViewDueDate(b)) = DateOf(doc.dueDate)
           /\ StoredTwice(doc, "tags") => ViewTags(b) = doc.tags

\* C9: a create or update that supplies a reserved key, as a field of the
\* payload, inside extras, or both, is accepted, and the task returned shows
\* the field's value when the field is supplied and the nested value
\* otherwise.
C9_InboundPrecedence ==
  ( \/ last.op = "createTask" /\ TitleValid(last.payload.title)
    \/ last.op = "updateTask" /\ last.status # 404 ) =>
     LET p == last.payload
         b == last.body
     IN /\ (\E k \in ReservedKeys : Supplied(p, k) # Undef) =>
              last.status \in {200, 201}
        /\ Supplied(p, "priority") # Undef =>
              ViewPriority(b) = Supplied(p, "priority")
        /\ Supplied(p, "dueDate") # Undef =>
              DateOf(ViewDueDate(b)) = DateOf(Supplied(p, "dueDate"))
        /\ Supplied(p, "tags") # Undef => ViewTags(b) = Supplied(p, "tags")

NeverUpdated(id) == tasks[id].updatedAt = tasks[id].createdAt

\* C10: two stored tasks, one created through the flat-field path and one
\* through the extras-nested path from payloads standing for the same
\* values, are read back in the same shape with the same values.
C10_WritePathIndependence ==
  \A i, j \in DOMAIN tasks :
     ( /\ createdWith[i].via = "flat" /\ createdWith[j].via = "extras"
       /\ NeverUpdated(i) /\ NeverUpdated(j)
       /\ LogicalValues(createdWith[i].payload)
            = LogicalValues(createdWith[j].payload) ) =>
        LET bi == mapTaskDocToType(variant, i, tasks[i])
            bj == mapTaskDocToType(variant, j, tasks[j])
        IN /\ bi.shape = bj.shape
           /\ ShownValues(bi) = ShownValues(bj)

\* the stored extras hold the due date under both spellings
TwoSpellings(doc) ==
  doc.extras["dueDate"] # Undef /\ doc.extras["due_date"] # Undef

\* C11: no stored task holds a reserved key in two representations at once:
\* neither as a document field and inside its stored extras, nor under the
\* two spellings dueDate and due_date.
C11_SingleStoredRepresentation ==
  \A id \in DOMAIN tasks :
     /\ \A k \in ReservedKeys : ~StoredTwice(tasks[id], k)
     /\ ~TwoSpellings(tasks[id])

\* C12: a create or update that supplies the empty string as dueDate, as a
\* field of the payload or inside extras, is treated like null: the stored
\* task holds null as its due date and the task returned shows null, never
\* the empty string.
C12_EmptyDueDateIsNull ==
  ( /\ last.op \in {"createTask", "updateTask"}
    /\ last.status \in {200, 201}
    /\ Supplied(last.payload, "dueDate") = EmptyStr ) =>
     LET doc == tasks[last.id]
         b == last.body
     IN /\ doc.dueDate \in {Null, Undef}
        /\ doc.extras["dueDate"] \in {Null, Undef}
        /\ doc.dueDate = Null \/ doc.extras["dueDate"] = Null
        /\ ViewDueDate(b) = Null
        /\ b.extras["dueDate"] \in {Null, Undef}

\* C13: an update of a task of the caller whose payload has no field at all
\* is answered 400 and leaves the store, the task's updatedAt included, as
\* it was.
C13_EmptyUpdateRejected ==
  [][( /\ last'.op = "updateTask"
       /\ last'.payload = NoPayload
       /\ Matches(last'.id, last'.user) ) =>
       /\ last'.status = 400
       /\ tasks' = tasks]_vars

\* the payload carries a status outside the enum, or a priority outside the
\* enum as a field or inside extras
EnumViolated(p) ==
  \/ ~StatusValid(p.status)
  \/ ~PriorityValid(p.priority)
  \/ p.hasExtras /\ ~PriorityValid(p.extras["priority"])

\* C14: a create or update whose status or priority, as a field or inside
\* extras, is outside its enum is answered 400, and every stored task has
\* its status and its priority, wherever stored, within the enums.
C14_EnumsEnforced ==
  /\ (last.op \in {"createTask", "updateTask"} /\ EnumViolated(last.payload))
        => last.status = 400
  /\ \A id \in DOMAIN tasks :
        /\ tasks[id].status \in StatusValues
        /\ tasks[id].priority \in PriorityValues \cup {Undef}
        /\ tasks[id].extras["priority"] \in PriorityValues \cup {Undef}

\* the title is missing, empty, blank, or longer than 255 characters
BadTitle(t) ==
  t \in {Undef, Null, EmptyStr} \/ Trim(t) = EmptyStr \/ Len(t) > TitleMax

\* C15: a create whose title is missing, empty, blank or longer than 255
\* characters is answered 400 and stores nothing, and every stored task has
\* a trimmed, non-empty title of at most 255 characters.
C15_TitleRequired ==
  [][/\ (last'.op = "createTask" /\ BadTitle(last'.payload.title)) =>
          /\ last'.status = 400
          /\ tasks' = tasks
     /\ \A id \in DOMAIN tasks' :
          /\ tasks'[id].title # EmptyStr
          /\ Trim(tasks'[id].title) = tasks'[id].title
          /\ Len(tasks'[id].title) <= TitleMax]_vars

\* the deployed generation's schema refuses the payload of the operation
SchemaError(op, p) ==
  IF op = "createTask"
  THEN (IF variant = "flat" THEN CreateErrorFlat(p) ELSE CreateErrorExtras(p))
  ELSE UpdateError(p)

\* the constraints of the deployed generation's schema for the operation
SchemaChecks(op, p) ==
  IF op = "createTask"
  THEN (IF variant = "flat" THEN CreateChecksFlat(p) ELSE CreateChecksExtras(p))
  ELSE (IF variant = "flat" THEN UpdateChecksFlat(p) ELSE UpdateChecksExtras(p))

\* m is the message of the first constraint of `checks` that is violated
FirstViolation(checks, m) ==
  \E i \in 1..Len(checks) :
     /\ checks[i] = m
     /\ m # Undef
     /\ \A j \in 1..(i - 1) : checks[j] = Undef

\* C16: a create or update whose payload the request schema refuses is
\* answered 400 with the message of the first violated constraint and no
\* task data, and the store is the same before and after the request.
C16_ValidationFrame ==
  [][( /\ last'.op \in {"createTask", "updateTask"}
       /\ SchemaError(last'.op, last'.payload) ) =>
       /\ last'.status = 400
       /\ FirstViolation(SchemaChecks(last'.op, last'.payload), last'.message)
       /\ last'.body = NoBody
       /\ UNCHANGED <<tasks, nextId, clock, createdBy>>]_vars

\* a refused create whose payload violates two constraints, title and status
C16_Witness ==
  /\ last.op = "createTask"
  /\ last.status = 400
  /\ last.payload.title = Undef
  /\ last.payload.status = "bogus"
  /\ last.message = "\"title\" is required"
  /\ DOMAIN tasks # {}

\* the step is the write of an update in progress whose task is no longer
\* stored for its caller
WriteWithoutTask ==
  \E r \in inflight :
     /\ inflight' = inflight \ {r}
     /\ ~Matches(r.id, r.user)
     /\ last'.op = "updateTask" /\ last'.id = r.id /\ last'.user = r.user

\* C17: an update whose task is deleted between the handler's existence
\* check and its write is answered 404, and its write stores nothing: the
\* deleted task is not created again.
C17_WriteAfterDeleteNotFound ==
  [][WriteWithoutTask =>
       /\ last'.status = 404
       /\ tasks' = tasks]_vars

\* the ids whose task has been deleted: assigned once, stored no more
Deleted == DOMAIN createdBy \ DOMAIN tasks

\* a delete of a task of the caller is answered 204 and removes the task; a
\* delete that finds no task of the caller is answered 404 and changes
\* nothing; a deleted task stays deleted and is in no listing
DeleteLaw ==
  /\ last'.op = "deleteTask" =>
        IF Matches(last'.id, last'.user)
        THEN last'.status = 204 /\ last'.id \in Deleted'
        ELSE last'.status = 404 /\ tasks' = tasks
  /\ Deleted \subseteq Deleted'
  /\ last'.op = "listTasks" =>
        \A n \in 1..Len(last'.list) : last'.list[n].id \notin Deleted'

\* C18 (as stated): deleting a task of the caller removes it for good: no
\* later listing holds it and every later update or delete of its id is
\* answered 404; a delete of an id with no task of the caller (never
\* created, already deleted, malformed) is answered 404 and changes nothing.
C18_DeletedAlways404 ==
  [][/\ DeleteLaw
     /\ (last'.op \in {"updateTask", "deleteTask"} /\ last'.id \in Deleted) =>
           last'.status = 404 /\ tasks' = tasks]_vars

\* C18 (amended): as above, except that an update of a deleted id whose
\* payload the validator refuses is answered 400, before the task is looked
\* up; the store is unchanged in either case.
C18_DeletePermanent ==
  [][/\ DeleteLaw
     /\ (last'.op \in {"updateTask", "deleteTask"} /\ last'.id \in Deleted) =>
           /\ last'.status =
                 IF last'.op = "updateTask" /\ UpdateError(last'.payload)
                 THEN 400 ELSE 404
           /\ tasks' = tasks]_vars

\* an update with a valid payload on the id of a deleted task
C18_Witness ==
  /\ last.op = "updateTask"
  /\ last.id \in Deleted
  /\ ~UpdateError(last.payload)
  /\ last.status = 404

\* C19: a listing is ordered most recently created first: of any two tasks
\* listed, the one created later, that is the one with the later id, comes
\* first; and no step changes the creation time of a stored task, so an
\* update never moves a task in the listing.
C19_NewestFirst ==
  [][/\ last'.op = "listTasks" =>
          \A m, n \in 1..Len(last'.list) :
             m < n => last'.list[m].id > last'.list[n].id
     /\ \A id \in DOMAIN tasks \cap DOMAIN tasks' :
          tasks'[id].createdAt = tasks[id].createdAt]_vars

\* a listing of two tasks of which the older one was updated after the newer
\* one was created
C19_Witness ==
  /\ last.op = "listTasks"
  /\ Len(last.list) = 2
  /\ last.list[2].updated_at > last.list[1].created_at

\* the step answers a request that carries no token that verifies
WithoutValidToken == last'.op # "none" /\ last'.token # "verified"

\* a request is refused by the middleware: 401 or 403, no task data, the
\* store untouched
RefusedByAuth ==
  /\ last'.status \in {401, 403}
  /\ last'.body = NoBody /\ last'.list = <<>>
  /\ UNCHANGED <<tasks, nextId, clock, createdBy>>

\* a task route that runs its handler runs it for a user named by a token
\* that verifies
HandledForTokenHolder ==
  (last'.op \in TaskOps /\ last'.token = "verified") => last'.user \in Users

Visible(r) ==
  [status |-> r.status, message |-> r.message, body |-> r.body,
   auth |-> r.auth, stack |-> r.stack, insight |-> r.insight]

UnknownEmail(e) == EmailValid(e) /\ getUserByEmail(e).id = 0

WrongPassword(e, p) ==
  /\ EmailValid(e)
  /\ getUserByEmail(e).id # 0
  /\ ~Compare(p, getUserByEmail(e).password)

\* C21: a login with an address no user holds and a login with a known
\* address and a wrong password get the same response, status 401 with the
\* message 'Invalid credentials' and nothing else; every login that fails
\* after the schema accepted it gets that response
C21_UniformLoginFailure ==
  /\ \A e1 \in Emails, e2 \in Emails, p \in Passwords :
       UnknownEmail(e1) /\ WrongPassword(e2, p)
         => /\ Visible(LoginAnswer(e1, p)) = Visible(LoginAnswer(e2, p))
            /\ LoginAnswer(e1, p).status = 401
            /\ LoginAnswer(e1, p).message = "Invalid credentials"
            /\ LoginAnswer(e1, p).auth = NoAuth
  /\ last.op = "login" /\ last.status \notin {200, 400}
       => Visible(last) = [status |-> 401, message |-> "Invalid credentials",
                           body |-> NoBody, auth |-> NoAuth, stack |-> Undef,
                           insight |-> Undef]

\* a login with a known address and a wrong password has been refused
\* while another address is unknown
C21_Witness ==
  /\ last.op = "login"
  /\ last.status = 401
  /\ WrongPassword(last.payload.email, last.payload.password)
  /\ \E e \in Emails : UnknownEmail(e)

\* equal up to letter case
SameUpToCase(a, b) == a = b \/ {a, b} = {"a@x.com", "A@X.com"}

Registered(e) == \E i \in DOMAIN users : SameUpToCase(users[i].email, e)

\* C22: no two user records hold addresses equal up to letter case; every
\* casing of a registered address is found, and logs in with the user's
\* password as that user; a signup with an address registered in any casing
\* is answered 400 and creates no user
C22_EmailsUniqueCaseInsensitive ==
  [][/\ \A i \in DOMAIN users', j \in DOMAIN users' :
          SameUpToCase(users'[i].email, users'[j].email) => i = j
     /\ (/\ last'.op = "login"
         /\ \E i \in DOMAIN users :
              /\ SameUpToCase(users[i].email, last'.payload.email)
              /\ users[i].password = Hash(last'.payload.password))
          => /\ last'.status = 200
             /\ SameUpToCase(users[last'.auth.id].email, last'.payload.email)
     /\ last'.op = "signup" /\ Registered(last'.payload.email)
          => last'.status = 400 /\ users' = users
    ]_vars

\* a signup with another casing of a registered address has been refused
C22_Witness ==
  /\ last.op = "signup"
  /\ last.status = 400
  /\ last.message = "User already exists with this email"
  /\ \E i \in DOMAIN users :
       /\ SameUpToCase(users[i].email, last.payload.email)
       /\ users[i].email # last.payload.email

\* C23: when the collaborator fails or is not configured, the insights
\* operation answers with text and not with an error response
C23_InsightsFallback ==
  /\ last.op \in {"insights", "getTaskInsights"}
  /\ last.payload.tasks = "array"
  => /\ last.status < 400
     /\ last.message = Undef
     /\ last.insight # Undef

\* the messages of 5xx answers that name no internal detail
GenericMessages == {"Internal Server Error", "Gemini API key not configured"}

\* C24: in production no error response carries a stack trace, and a
\* 5xx response carries a generic message only
C24_NoInternalDetail ==
  nodeEnv = "production" /\ last.status >= 400
  => /\ last.stack = Undef
     /\ last.status >= 500 => last.message \in GenericMessages

\* the passwords of the requests and their hashes
Secrets == Passwords \cup {Hash(p) : p \in Passwords}

\* the strings a response shows to the client
ShownStrings(r) ==
  {r.message, r.stack, r.insight, r.auth.email, r.auth.password,
   r.auth.tokenEmail}

\* C25: no response shows a password or a password hash, and every user
\* record holds the hash of its password, never the password
C25_NoPasswordInResponse ==
  /\ ShownStrings(last) \cap Secrets = {}
  /\ \A i \in DOMAIN users :
       /\ users[i].password \notin Passwords
       /\ \E p \in Passwords : users[i].password = Hash(p)

\* a login has succeeded for a user whose record holds the hash of the
\* password sent
C25_Witness ==
  /\ last.op = "login"
  /\ last.status = 200
  /\ last.auth.id \in DOMAIN users
  /\ users[last.auth.id].password = Hash(last.payload.password)

\* a signup that passed its existence check is completed
SignupCompletes ==
  /\ signups' # signups
  /\ signups' \subseteq signups
  /\ last'.op = "signup"

\* C29: of two signups for one address that both passed the existence
\* check, the one that saves second creates no user and is answered 400
\* 'User already exists with this email', as a later signup would be; the
\* address is held by one record
C29_ConcurrentSignup ==
  [][/\ \A i \in DOMAIN users', j \in DOMAIN users' :
          SameUpToCase(users'[i].email, users'[j].email) => i = j
     /\ SignupCompletes /\ Registered(last'.payload.email)
          => /\ users' = users
             /\ last'.status = 400
             /\ last'.message = "User already exists with this email"
             /\ last'.auth = NoAuth
    ]_vars

\* an update that passed its existence check applies its write
WriteApplied ==
  /\ inflight' # inflight
  /\ inflight' \subseteq inflight
  /\ last'.op = "updateTask"
  /\ last'.status = 200

\* what the update would store if the whole request ran at its write
RunAtWrite(r) ==
  IF variant = "flat"
  THEN ApplyUpdatesFlat(tasks[r.id], r.payload)
  ELSE ApplyUpdatesExtras(tasks[r.id],
                          TaskUpdates(getTaskById(r.id, r.user), r.payload))

\* C27: every write of an update leaves the task as the whole request
\* would leave it when run at the moment of its write, so that two
\* interleaved updates end as the two requests run one after the other in
\* the order of their writes
C27_SerialInWriteOrder ==
  [][WriteApplied
       => \A r \in inflight \ inflight' : tasks'[r.id] = RunAtWrite(r)
    ]_vars

\* the server has applied the operation of an answered request
Confirmed(r) ==
  /\ r.phase = "answered"
  /\ Ok(r.status)
  /\ CASE r.kind = "delete" -> r.id \notin DOMAIN tasks
       [] r.kind = "update" ->
            r.body = mapTaskDocToType(variant, r.id, tasks[r.id])
       [] OTHER ->
            r.body = mapTaskDocToType(variant, r.body.id, tasks[r.body.id])

\* C26: the cached list changes only in the step in which the handler of a
\* confirmed create, update or delete resumes; while a request is in
\* flight the list is the one the request was called with, and the handler
\* of a failed request leaves the list as it was when the request was
\* called
C26_CacheAfterConfirmation ==
  [][/\ cache' # cache
          => \E r \in requests : Confirmed(r) /\ requests' = requests \ {r}
     /\ \A r \in requests' : cache' = r.snapshot
     /\ \A r \in requests \ requests' :
          r.phase = "answered" /\ ~Ok(r.status)
            => cache' = r.snapshot /\ cache' = cache
    ]_vars

\* the server has confirmed an update and the handler has not resumed: the
\* list still shows the task as it was
C26_Witness ==
  \E r \in requests :
    /\ r.kind = "update"
    /\ Confirmed(r)
    /\ cache = r.snapshot
    /\ \E i \in DOMAIN cache : cache[i].id = r.id /\ cache[i] # r.body

\* the tasks of the dashboard's user as the server answers them
ServerTasks ==
  {mapTaskDocToType(variant, id, tasks[id]) :
     id \in {i \in DOMAIN tasks : tasks[i].userId = DashboardUser}}

\* C28: once every request of the dashboard has completed, the cached list
\* holds exactly the tasks the server holds for the user, each once
C28_CacheConverges ==
  requests = {} /\ last.op = "none"
    => /\ {cache[i] : i \in DOMAIN cache} = ServerTasks
       /\ Len(cache) = Cardinality(ServerTasks)

\* GET /system/health is answered
HealthAnswered ==
  /\ last'.op = "systemHealth"
  /\ last' # last
  /\ UNCHANGED <<isConnected, readyState>>

\* C30: the service's isConnected flag equals the state of the connection
\* after every connect, event and reconnection, and GET /system/health
\* answers 200 exactly when the connection is up and 503 otherwise
C30_HealthTracksConnection ==
  [][/\ isConnected' = (readyState' = "connected")
     /\ HealthAnswered
          => /\ (last'.status = 200) = (readyState = "connected")
             /\ last'.status \in {200, 503}
    ]_vars

====
